---- MODULE Spec2Model ----
(***************************************************************************)
(* Model of cruiser's TypeScript serialization helpers:                   *)
(*   ts_helpers/src/num.ts    the bounded integer codecs i8 .. u64        *)
(*   ts_helpers/src/borsh.ts  SerializablePublicKey, readAccount,          *)
(*                            serializeInstruction                         *)
(* A Buffer is a sequence of bytes (index 1 is byte offset 0), the cursor  *)
(* `{ offset: number }` is a natural number.  Raw integers are kept in     *)
(* sign-magnitude form over little-endian bytes, because u32, i64 and u64  *)
(* values do not fit 32-bit integers.                                      *)
(***************************************************************************)
EXTENDS Integers, Sequences, FiniteSets, TLC

VARIABLES buffer, offset, last, wrote, nops, sent, plan, got

vars == <<buffer, offset, last, wrote, nops, sent, plan, got>>

(***************************************************************************)
(* Bounds of the model.                                                    *)
(***************************************************************************)
\* bytes of magnitude kept for a raw integer (2^64 needs nine)
MagBytes == 9
\* codec calls made through one cursor in a run of Spec
MaxOps == 2
\* longest caller-supplied buffer of Spec is the widest integer plus this
MaxSlack == 1
\* longest value sequence of SpecSeq
MaxSeqLen == 2

(***************************************************************************)
(* Raw integers: JavaScript number (integral) and bigint values.           *)
(***************************************************************************)
Zeros(n) == [i \in 1..n |-> 0]

Pad(bs) == bs \o Zeros(MagBytes - Len(bs))

\* m * k + c on a little-endian byte string, truncated to Len(m) bytes
RECURSIVE MulAdd(_, _, _, _)
MulAdd(m, k, c, i) ==
  IF i > Len(m) THEN m
  ELSE LET t == m[i] * k + c
       IN MulAdd([m EXCEPT ![i] = t % 256], k, t \div 256, i + 1)

\* m - 1 on a little-endian byte string (m is not zero)
RECURSIVE SubOne(_, _)
SubOne(m, i) ==
  IF i > Len(m) THEN m
  ELSE IF m[i] > 0 THEN [m EXCEPT ![i] = m[i] - 1]
  ELSE SubOne([m EXCEPT ![i] = 255], i + 1)

RECURSIVE FromDigits(_, _, _)
FromDigits(base, ds, acc) ==
  IF ds = <<>> THEN acc
  ELSE FromDigits(base, Tail(ds), MulAdd(acc, base, Head(ds), 1))

IsZeroMag(m) == \A i \in 1..Len(m) : m[i] = 0

Num(neg, mag) == [neg |-> neg /\ ~IsZeroMag(mag), mag |-> mag]

\* a decimal literal of the source, digit by digit
Dec(ds) == Num(FALSE, FromDigits(10, ds, Zeros(MagBytes)))
\* a hexadecimal literal of the source
Hex(ds) == Num(FALSE, FromDigits(16, ds, Zeros(MagBytes)))
Minus(x) == Num(~x.neg, x.mag)

Succ(x) ==
  IF x.neg THEN Num(TRUE, SubOne(x.mag, 1)) ELSE Num(FALSE, MulAdd(x.mag, 1, 1, 1))
Pred(x) ==
  IF x.neg \/ IsZeroMag(x.mag) THEN Num(TRUE, MulAdd(x.mag, 1, 1, 1))
  ELSE Num(FALSE, SubOne(x.mag, 1))

RECURSIVE CmpMag(_, _, _)
CmpMag(a, b, i) ==
  IF i = 0 THEN 0
  ELSE IF a[i] < b[i] THEN -1
  ELSE IF a[i] > b[i] THEN 1
  ELSE CmpMag(a, b, i - 1)

\* the JavaScript comparison x < y
Less(x, y) ==
  IF x.neg /\ ~y.neg THEN TRUE
  ELSE IF ~x.neg /\ y.neg THEN FALSE
  ELSE IF x.neg THEN CmpMag(x.mag, y.mag, MagBytes) = 1
  ELSE CmpMag(x.mag, y.mag, MagBytes) = -1

(***************************************************************************)
(* num.ts: the eight bounded integer classes.                              *)
(***************************************************************************)
IntTypes == {"i8", "i16", "i32", "i64", "u8", "u16", "u32", "u64"}

Signed(T) == T \in {"i8", "i16", "i32", "i64"}

\* static readonly bounds
BoundsOf(T) ==
  CASE T = "i8"  -> [min |-> Minus(Dec(<<1,2,8>>)), max |-> Dec(<<1,2,7>>)]
    [] T = "i16" -> [min |-> Minus(Dec(<<3,2,7,6,8>>)), max |-> Dec(<<3,2,7,6,7>>)]
    [] T = "i32" -> [min |-> Minus(Dec(<<2,1,4,7,4,8,3,6,4,8>>)),
                     max |-> Dec(<<2,1,4,7,4,8,3,6,4,7>>)]
    [] T = "i64" -> [min |-> Minus(Dec(<<9,2,2,3,3,7,2,0,3,6,8,5,4,7,7,5,8,0,8>>)),
                     max |-> Dec(<<9,2,2,3,3,7,2,0,3,6,8,5,4,7,7,5,8,0,7>>)]
    [] T = "u8"  -> [min |-> Dec(<<0>>), max |-> Dec(<<2,5,5>>)]
    [] T = "u16" -> [min |-> Dec(<<0>>), max |-> Dec(<<6,5,5,3,5>>)]
    [] T = "u32" -> [min |-> Dec(<<0>>), max |-> Dec(<<4,2,9,4,9,6,7,2,9,5>>)]
    [] T = "u64" -> [min |-> Dec(<<0>>),
                     max |-> Hex(<<15,15,15,15, 15,15,15,15, 15,15,15,15, 15,15,15,15>>)]

BoundsTable == [T \in IntTypes |-> BoundsOf(T)]

bounds(T) == BoundsTable[T]

\* a constructor that checks the upper bound only
constructorUpperOnly(T, value) == ~Less(bounds(T).max, value)

\* constructor: throws unless bounds.min <= value <= bounds.max
constructor(T, value) ==
  ~(Less(value, bounds(T).min) \/ Less(bounds(T).max, value))

\* static staticSize()
staticSize(T) ==
  CASE T = "i8" -> 1 [] T = "i16" -> 2 [] T = "i32" -> 4 [] T = "i64" -> 8
    [] T = "u8" -> 1 [] T = "u16" -> 1 [] T = "u32" -> 1 [] T = "u64" -> 1

\* serializedSize() { return T.staticSize(); }
serializedSize(T) == staticSize(T)

\* bytes the Buffer accessor named in write and read touches
\* (writeInt8, writeInt16LE, ..., writeBigUint64LE and their read twins)
AccessWidth(T) ==
  CASE T = "i8" -> 1 [] T = "i16" -> 2 [] T = "i32" -> 4 [] T = "i64" -> 8
    [] T = "u8" -> 1 [] T = "u16" -> 2 [] T = "u32" -> 4 [] T = "u64" -> 8

\* write: offset.offset += n
writeAdvance(T) ==
  CASE T = "i8" -> 1 [] T = "i16" -> 2 [] T = "i32" -> 4 [] T = "i64" -> 8
    [] T = "u8" -> 1 [] T = "u16" -> 1 [] T = "u32" -> 1 [] T = "u64" -> 1

\* read: offset.offset += n
readAdvance(T) ==
  CASE T = "i8" -> 1 [] T = "i16" -> 2 [] T = "i32" -> 4 [] T = "i64" -> 8
    [] T = "u8" -> 1 [] T = "u16" -> 1 [] T = "u32" -> 1 [] T = "u64" -> 1

(***************************************************************************)
(* Node's Buffer, as the codecs use it.                                    *)
(***************************************************************************)
\* two's complement negation of a byte string, in its own width
Negate(bs) == MulAdd([i \in 1..Len(bs) |-> 255 - bs[i]], 1, 1, 1)

\* an accessor that stores the magnitude of a negative value
StoreLEMagnitude(value, w) == SubSeq(value.mag, 1, w)

\* the little-endian bytes a write accessor of width w stores for value
StoreLE(value, w) ==
  IF value.neg THEN Negate(SubSeq(value.mag, 1, w)) ELSE SubSeq(value.mag, 1, w)

\* the value a read accessor makes of w little-endian bytes
LoadLE(bs, signed) ==
  IF signed /\ bs[Len(bs)] >= 128 THEN Num(TRUE, Pad(Negate(bs)))
  ELSE Num(FALSE, Pad(bs))

\* the value range a write accessor of width w accepts
AccessorAccepts(value, w, signed) ==
  LET ones == [i \in 1..w |-> 255]
      top  == [i \in 1..w |-> IF i = w THEN 128 ELSE 0]
      lo   == IF signed THEN Num(TRUE, Pad(top)) ELSE Num(FALSE, Pad(Zeros(w)))
      hi   == IF signed THEN Num(FALSE, Pad([ones EXCEPT ![w] = 127]))
              ELSE Num(FALSE, Pad(ones))
  IN ~(Less(hi, value) \/ Less(value, lo))

\* buf with bs stored from byte offset o on (o + Len(bs) <= Len(buf))
Splice(buf, o, bs) ==
  [i \in 1..Len(buf) |-> IF i > o /\ i <= o + Len(bs) THEN bs[i - o] ELSE buf[i]]

\* buffer.slice(from, to): clamped to the buffer
Slice(buf, from, to) ==
  LET a == IF from > Len(buf) THEN Len(buf) ELSE from
      b == IF to > Len(buf) THEN Len(buf) ELSE to
  IN IF b <= a THEN <<>> ELSE SubSeq(buf, a + 1, b)

\* source.copy(target, targetStart): copies what fits, never throws for
\* targetStart >= 0
Copy(source, target, targetStart) ==
  IF targetStart >= Len(target) THEN target
  ELSE LET room == Len(target) - targetStart
           n == IF Len(source) < room THEN Len(source) ELSE room
       IN Splice(target, targetStart, SubSeq(source, 1, n))

(***************************************************************************)
(* @solana/web3.js PublicKey, as SerializablePublicKey uses it: the key    *)
(* is a big number made of the bytes read big-endian, so leading zero      *)
(* bytes are not kept; toBuffer() pads it back to 32 bytes.                *)
(***************************************************************************)
RECURSIVE StripZeros(_)
StripZeros(bs) ==
  IF bs = <<>> THEN bs
  ELSE IF Head(bs) = 0 THEN StripZeros(Tail(bs))
  ELSE bs

\* new PublicKey(bytes)
PublicKey(bs) == StripZeros(bs)

\* new PublicKey(bytes) throws for a number of more than 32 bytes
PublicKeyAccepts(bs) == Len(StripZeros(bs)) <= 32

\* key.toBuffer()
toBuffer(key) == Zeros(32 - Len(key)) \o key

(***************************************************************************)
(* The codecs behind one interface: Serialize, Deserialize, StaticSize,    *)
(* Equals.                                                                 *)
(***************************************************************************)
KeyType == "pubkey"

Types == IntTypes \cup {KeyType}

None == [neg |-> FALSE, mag |-> <<>>]

\* num.ts write(buffer, offset)
IntWrite(T, value, buf, o) ==
  LET w == AccessWidth(T)
  IN IF ~AccessorAccepts(value, w, Signed(T)) \/ o + w > Len(buf)
     THEN [ok |-> FALSE, buffer |-> buf, offset |-> o]
     ELSE [ok |-> TRUE, buffer |-> Splice(buf, o, StoreLE(value, w)),
           offset |-> o + writeAdvance(T)]

\* num.ts static read(buffer, offset)
IntRead(T, buf, o) ==
  LET w == AccessWidth(T)
  IN IF o + w > Len(buf)
     THEN [ok |-> FALSE, value |-> None, offset |-> o]
     ELSE LET value == LoadLE(SubSeq(buf, o + 1, o + w), Signed(T))
          IN [ok |-> constructor(T, value), value |-> value,
              offset |-> o + readAdvance(T)]

\* a write that advances the cursor by one byte, as the unsigned classes do
KeyWriteAdvanceOne(key, buf, o) ==
  [ok |-> TRUE, buffer |-> Copy(toBuffer(key), buf, o), offset |-> o + 1]

\* SerializablePublicKey.write
KeyWrite(key, buf, o) ==
  [ok |-> TRUE, buffer |-> Copy(toBuffer(key), buf, o), offset |-> o + 32]

\* SerializablePublicKey.read
KeyRead(buf, o) ==
  LET bytes == Slice(buf, o, o + 32)
  IN IF PublicKeyAccepts(bytes)
     THEN [ok |-> TRUE, value |-> PublicKey(bytes), offset |-> o + 32]
     ELSE [ok |-> FALSE, value |-> <<>>, offset |-> o]

\* SerializablePublicKey.serializedSize
KeySerializedSize == 32

\* SerializablePublicKey.staticSize
KeyStaticSize == 32

Write(T, value, buf, o) ==
  IF T = KeyType THEN KeyWrite(value, buf, o) ELSE IntWrite(T, value, buf, o)

Read(T, buf, o) ==
  IF T = KeyType THEN KeyRead(buf, o) ELSE IntRead(T, buf, o)

SerializedSize(T) == IF T = KeyType THEN KeySerializedSize ELSE serializedSize(T)

StaticSize(T) == IF T = KeyType THEN KeyStaticSize ELSE staticSize(T)

\* equals(other): this.value === other.value, this.key.equals(other.key)
Equals(a, b) == a = b

(***************************************************************************)
(* borsh.ts: the tagged reader and writer.                                 *)
(***************************************************************************)
\* readAccount(dCons, tCons, buffer, offset); expected is tCons.discriminant()
readAccount(D, expected, T, buf, o) ==
  LET discriminant == Read(D, buf, o)
  IN IF ~discriminant.ok
     THEN [outcome |-> "error", value |-> None, offset |-> discriminant.offset]
     ELSE IF Equals(discriminant.value, expected)
     THEN LET body == Read(T, buf, discriminant.offset)
          IN [outcome |-> IF body.ok THEN "ok" ELSE "error",
              value |-> body.value, offset |-> body.offset]
     ELSE [outcome |-> "null", value |-> None, offset |-> discriminant.offset]

\* serializeInstruction(tCons, instruction); d is tCons.discriminant()
serializeInstruction(D, d, T, instruction) ==
  LET alloc == Zeros(SerializedSize(D) + SerializedSize(T))
      first == Write(D, d, alloc, 0)
      second == Write(T, instruction, first.buffer, first.offset)
  IN IF ~first.ok THEN [ok |-> FALSE, buffer |-> first.buffer]
     ELSE [ok |-> second.ok, buffer |-> second.buffer]

(***************************************************************************)
(* Inputs.                                                                 *)
(***************************************************************************)
Seven == Dec(<<7>>)
Eight == Dec(<<8>>)
MinusOne == Minus(Dec(<<1>>))

\* instances of an integer class: values its constructor accepts
Samples(T) ==
  {bounds(T).min, bounds(T).max, IF Signed(T) THEN MinusOne ELSE Seven}

\* raw values offered to the constructors
RawSamples ==
  UNION {{Pred(bounds(T).min), bounds(T).min, bounds(T).max, Succ(bounds(T).max)} :
         T \in IntTypes}
  \cup {Dec(<<1>>), Seven, MinusOne, Dec(<<2,5,8>>)}

Keys ==
  {PublicKey([i \in 1..32 |-> i]),
   PublicKey([i \in 1..32 |-> IF i <= 3 THEN 0 ELSE 255 - i]),
   PublicKey([i \in 1..32 |-> 255])}

Instances(T) == IF T = KeyType THEN Keys ELSE Samples(T)

\* record bodies handed to the tagged writer
Discriminants == {Seven, Eight}

\* a caller's buffer before the codecs touch it
Fill(n) == [i \in 1..n |-> 170]

BufferLengths == (0..(8 + MaxSlack)) \cup ((32 - 1)..(32 + MaxSlack))

NoCall ==
  [op |-> "none", type |-> "none", arg |-> None, start |-> 0, ok |-> TRUE,
   value |-> None, end |-> 0, before |-> <<>>]

NoWrite == [type |-> "none", value |-> None, start |-> 0]

NoSend == [D |-> "none", d |-> None, T |-> "none", v |-> None, ok |-> FALSE]

(***************************************************************************)
(* SpecNum: construction and the size functions.                           *)
(***************************************************************************)
\* buffers whose every window decodes to an extreme of its class
NumBuffers == {[i \in 1..8 |-> b] : b \in {0, 127, 128, 255}}

InitNum ==
  /\ buffer \in NumBuffers /\ offset = 0 /\ last = NoCall /\ wrote = NoWrite
  /\ nops = 0 /\ sent = NoSend /\ plan = <<>> /\ got = <<>>

\* new T(value)
New(T, value) ==
  /\ last' = [NoCall EXCEPT !.op = "new", !.type = T, !.arg = value,
                            !.ok = constructor(T, value)]
  /\ UNCHANGED <<buffer, offset, wrote, nops, sent, plan, got>>

\* T.staticSize()
CallStaticSize(T) ==
  /\ last' = [NoCall EXCEPT !.op = "staticSize", !.type = T, !.end = StaticSize(T)]
  /\ UNCHANGED <<buffer, offset, wrote, nops, sent, plan, got>>

\* instance.serializedSize()
CallSerializedSize(T, value) ==
  /\ last' = [NoCall EXCEPT !.op = "serializedSize", !.type = T, !.arg = value,
                            !.end = SerializedSize(T)]
  /\ UNCHANGED <<buffer, offset, wrote, nops, sent, plan, got>>

\* T.read(buffer, { offset: 0 })
Decode(T) ==
  /\ LET r == Read(T, buffer, 0)
     IN last' = [NoCall EXCEPT !.op = "read", !.type = T, !.ok = r.ok,
                               !.value = r.value, !.end = r.offset, !.before = buffer]
  /\ UNCHANGED <<buffer, offset, wrote, nops, sent, plan, got>>

NextNum ==
  \/ \E T \in IntTypes : \E value \in RawSamples : New(T, value)
  \/ \E T \in IntTypes : Decode(T)
  \/ \E T \in Types : CallStaticSize(T)
  \/ \E T \in Types : \E value \in Instances(T) : CallSerializedSize(T, value)

SpecNum == InitNum /\ [][NextNum]_vars

(***************************************************************************)
(* Spec: codec calls on a caller's buffer through a cursor.                *)
(***************************************************************************)
Init ==
  /\ buffer \in {Fill(n) : n \in BufferLengths}
  /\ offset = 0 /\ last = NoCall /\ wrote = NoWrite
  /\ nops = 0 /\ sent = NoSend /\ plan = <<>> /\ got = <<>>

\* instance.write(buffer, offset) with the shared cursor
CallWrite(T, value) ==
  /\ nops < MaxOps
  /\ LET r == Write(T, value, buffer, offset)
     IN /\ buffer' = r.buffer
        /\ offset' = r.offset
        /\ last' = [op |-> "write", type |-> T, arg |-> value, start |-> offset,
                    ok |-> r.ok, value |-> None, end |-> r.offset,
                    before |-> buffer]
        /\ wrote' = IF r.ok THEN [type |-> T, value |-> value, start |-> offset]
                    ELSE wrote
  /\ nops' = nops + 1
  /\ UNCHANGED <<sent, plan, got>>

\* T.read(buffer, offset) with the shared cursor, or with a cursor the caller
\* has set back to where the previous call started
CallRead(T, o) ==
  /\ nops < MaxOps
  /\ LET r == Read(T, buffer, o)
     IN /\ offset' = r.offset
        /\ last' = [op |-> "read", type |-> T, arg |-> None, start |-> o,
                    ok |-> r.ok, value |-> r.value, end |-> r.offset,
                    before |-> buffer]
  /\ nops' = nops + 1
  /\ UNCHANGED <<buffer, wrote, sent, plan, got>>

Next ==
  \/ \E T \in Types : \E value \in Instances(T) : CallWrite(T, value)
  \/ \E T \in Types : \E o \in {offset, last.start} : CallRead(T, o)

Spec == Init /\ [][Next]_vars

(***************************************************************************)
(* SpecTagged: tagged records.  A program has one discriminant class D;    *)
(* its record bodies are codecs of this module.                            *)
(***************************************************************************)
Payloads(T) ==
  IF T = KeyType THEN {PublicKey([i \in 1..32 |-> i])}
  ELSE IF T = "i64" THEN {bounds(T).min, MinusOne}
  ELSE IF Signed(T) THEN {bounds(T).min}
  ELSE {Seven}

\* the wire format of section 6 of the specification, as a peer produces it:
\* little-endian two's complement in the table's width, identifiers verbatim
TableWidth(T) ==
  CASE T = "i8" -> 1 [] T = "i16" -> 2 [] T = "i32" -> 4 [] T = "i64" -> 8
    [] T = "u8" -> 1 [] T = "u16" -> 2 [] T = "u32" -> 4 [] T = "u64" -> 8
    [] T = KeyType -> 32

\* 0 - m on a little-endian byte string, by schoolbook borrow
RECURSIVE BorrowNeg(_, _, _)
BorrowNeg(m, i, borrow) ==
  IF i > Len(m) THEN m
  ELSE LET t == 0 - m[i] - borrow
       IN IF t < 0 THEN BorrowNeg([m EXCEPT ![i] = t + 256], i + 1, 1)
          ELSE BorrowNeg([m EXCEPT ![i] = t], i + 1, 0)

WireInt(value, w) ==
  IF value.neg THEN BorrowNeg(SubSeq(value.mag, 1, w), 1, 0)
  ELSE SubSeq(value.mag, 1, w)

WireBytes(T, value) ==
  IF T = KeyType THEN Zeros(32 - Len(value)) \o value
  ELSE WireInt(value, TableWidth(T))

InitTagged ==
  /\ buffer = <<>> /\ offset = 0 /\ last = NoCall /\ wrote = NoWrite
  /\ nops = 0 /\ sent = NoSend /\ plan = <<>> /\ got = <<>>

\* buffer = serializeInstruction(tCons, instruction)
CallSerializeInstruction(D, d, T, instruction) ==
  LET r == serializeInstruction(D, d, T, instruction)
  IN /\ buffer' = IF r.ok THEN r.buffer ELSE <<>>
     /\ sent' = [D |-> D, d |-> d, T |-> T, v |-> instruction, ok |-> r.ok]
     /\ last' = [op |-> "serializeInstruction", D |-> D, expected |-> d, T |-> T,
                 arg |-> instruction, start |-> 0, outcome |-> IF r.ok THEN "ok" ELSE "error",
                 value |-> None, end |-> 0, before |-> <<>>]
     /\ offset' = 0
     /\ UNCHANGED <<wrote, nops, plan, got>>

\* the caller is handed a tagged record a peer encoded
Receive(D, d, T, v) ==
  /\ buffer' = WireBytes(D, d) \o WireBytes(T, v)
  /\ sent' = [D |-> D, d |-> d, T |-> T, v |-> v, ok |-> TRUE]
  /\ last' = [op |-> "receive", D |-> D, expected |-> d, T |-> T,
              arg |-> v, start |-> 0, outcome |-> "ok",
              value |-> None, end |-> 0, before |-> <<>>]
  /\ offset' = 0
  /\ UNCHANGED <<wrote, nops, plan, got>>

\* readAccount(dCons, tCons, buffer) with the default cursor { offset: 0 }
CallReadAccount(expected, T) ==
  /\ sent.ok
  /\ LET r == readAccount(sent.D, expected, T, buffer, 0)
     IN /\ last' = [op |-> "readAccount", D |-> sent.D, expected |-> expected, T |-> T,
                    arg |-> None, start |-> 0, outcome |-> r.outcome,
                    value |-> r.value, end |-> r.offset, before |-> buffer]
        /\ offset' = r.offset
  /\ UNCHANGED <<buffer, sent, wrote, nops, plan, got>>

NextTagged ==
  \/ \E D \in IntTypes : \E T \in Types : \E v \in Payloads(T) :
       CallSerializeInstruction(D, Seven, T, v)
  \/ \E D \in IntTypes : \E T \in Types : \E v \in Payloads(T) :
       Receive(D, Seven, T, v)
  \/ \E expected \in Discriminants : \E T \in Types : CallReadAccount(expected, T)

SpecTagged == InitTagged /\ [][NextTagged]_vars

(***************************************************************************)
(* SpecSeq: a caller writes a sequence of values through one cursor into a *)
(* buffer sized by the table, then reads the same classes back from 0.     *)
(***************************************************************************)
Items ==
  {[type |-> T, num |-> Seven, key |-> <<>>] : T \in IntTypes}
  \cup {[type |-> "i16", num |-> bounds("i16").min, key |-> <<>>],
        [type |-> KeyType, num |-> None, key |-> PublicKey([i \in 1..32 |-> i])]}

ItemValue(item) == IF item.type = KeyType THEN item.key ELSE item.num

RECURSIVE SumWidths(_)
SumWidths(items) ==
  IF items = <<>> THEN 0
  ELSE TableWidth(Head(items).type) + SumWidths(Tail(items))

Plans == UNION {[1..n -> Items] : n \in 1..MaxSeqLen}

InitSeq ==
  /\ plan \in Plans
  /\ buffer = Zeros(SumWidths(plan))
  /\ offset = 0 /\ last = NoCall /\ wrote = NoWrite
  /\ nops = 0 /\ sent = NoSend /\ got = <<>>

\* plan[nops + 1].write(buffer, offset)
SeqWrite ==
  /\ last.op \in {"none", "write"} /\ last.ok
  /\ nops < Len(plan)
  /\ LET item == plan[nops + 1]
         r == Write(item.type, ItemValue(item), buffer, offset)
     IN /\ buffer' = r.buffer
        /\ offset' = r.offset
        /\ last' = [NoCall EXCEPT !.op = "write", !.type = item.type, !.start = offset,
                                  !.ok = r.ok, !.end = r.offset]
  /\ nops' = nops + 1
  /\ UNCHANGED <<wrote, sent, plan, got>>

\* offset = { offset: 0 }
SeqRewind ==
  /\ last.op = "write" /\ last.ok
  /\ nops = Len(plan)
  /\ offset' = 0
  /\ last' = [NoCall EXCEPT !.op = "rewind"]
  /\ UNCHANGED <<buffer, wrote, nops, sent, plan, got>>

\* got.push(T.read(buffer, offset)) for the class of the next planned item
SeqRead ==
  /\ last.op \in {"rewind", "read"} /\ last.ok
  /\ Len(got) < Len(plan)
  /\ LET item == plan[Len(got) + 1]
         r == Read(item.type, buffer, offset)
     IN /\ offset' = r.offset
        /\ got' = IF r.ok THEN Append(got, r.value) ELSE got
        /\ last' = [NoCall EXCEPT !.op = "read", !.type = item.type, !.start = offset,
                                  !.ok = r.ok, !.end = r.offset]
  /\ UNCHANGED <<buffer, wrote, nops, sent, plan>>

NextSeq == SeqWrite \/ SeqRewind \/ SeqRead

SpecSeq == InitSeq /\ [][NextSeq]_vars

(***************************************************************************)
(* The properties.                                                         *)
(***************************************************************************)
\* the table of section 4.2 of the specification
TableMin(T) ==
  LET w == TableWidth(T)
  IN IF Signed(T) THEN Num(TRUE, Pad([i \in 1..w |-> IF i = w THEN 128 ELSE 0]))
     ELSE Num(FALSE, Pad(Zeros(w)))

TableMax(T) ==
  LET w == TableWidth(T)
  IN Num(FALSE, Pad([i \in 1..w |-> IF i = w /\ Signed(T) THEN 127 ELSE 255]))

InTable(T, v) == ~Less(v, TableMin(T)) /\ ~Less(TableMax(T), v)

\* the integer w little-endian two's complement bytes stand for
WireValue(bs, signed) ==
  IF signed /\ bs[Len(bs)] >= 128 THEN Num(TRUE, Pad(BorrowNeg(bs, 1, 0)))
  ELSE Num(FALSE, Pad(bs))

\* buffers a and b agree outside the byte offsets [o, o + w)
SameOutside(a, b, o, w) ==
  /\ Len(a) = Len(b)
  /\ \A i \in 1..Len(a) : (i <= o \/ i > o + w) => a[i] = b[i]

RECURSIVE WirePlan(_)
WirePlan(items) ==
  IF items = <<>> THEN <<>>
  ELSE WireBytes(Head(items).type, ItemValue(Head(items))) \o WirePlan(Tail(items))

\* C1: every successful write and read of a bounded integer leaves the cursor
\* at its value before the call plus the width of the class in the table.
C1_CursorAdvancesByTableWidth ==
  (last.op \in {"write", "read"} /\ last.type \in IntTypes /\ last.ok)
    => last.end = last.start + TableWidth(last.type)

\* C2: staticSize() and serializedSize() of every bounded integer class
\* return the width of the class in the table.
C2_SizesAreTableWidths ==
  (last.op \in {"staticSize", "serializedSize"} /\ last.type \in IntTypes)
    => last.end = TableWidth(last.type)

C4_RoundTrip ==
  /\ (last.op = "write" /\ last.type \in IntTypes /\ last.ok) =>
       LET w == TableWidth(last.type)
       IN /\ last.start + w <= Len(buffer)
          /\ SubSeq(buffer, last.start + 1, last.start + w) = WireInt(last.arg, w)
          /\ SameOutside(buffer, last.before, last.start, w)
  /\ (last.op = "read" /\ last.type \in IntTypes
        /\ wrote.type = last.type /\ wrote.start = last.start) =>
       /\ last.ok
       /\ Equals(last.value, wrote.value)

C4_Witness ==
  /\ last.op = "read" /\ last.type = "i64" /\ last.ok
  /\ wrote.type = "i64" /\ wrote.start = last.start
  /\ wrote.value = bounds("i64").min

\* C5: serializeInstruction returns the discriminant's encoding followed at
\* once by the body's encoding, in a buffer of exactly the two table widths.
C5_WriterExact ==
  last.op = "serializeInstruction" =>
    /\ sent.ok
    /\ Len(buffer) = TableWidth(last.D) + TableWidth(last.T)
    /\ buffer = WireBytes(last.D, last.expected) \o WireBytes(last.T, last.arg)

\* C6: readAccount from offset 0 on the tagged encoding of a body, against
\* the candidate whose expected discriminant is the encoded one, returns a
\* record equal to the body.
C6_DispatchMatch ==
  (last.op = "readAccount" /\ last.expected = sent.d /\ last.T = sent.T) =>
    /\ last.outcome = "ok"
    /\ Equals(last.value, sent.v)

\* C7: when the discriminant at the cursor decodes to a value other than the
\* expected one, readAccount returns null, raises nothing, and leaves the
\* cursor advanced by the table width of the discriminant class.
C7_DispatchMismatch ==
  last.op = "readAccount" =>
    LET discriminant == Read(last.D, last.before, last.start)
    IN (discriminant.ok /\ ~Equals(discriminant.value, last.expected)) =>
         /\ last.outcome = "null"
         /\ last.end = last.start + TableWidth(last.D)

\* C8: every write and read raises an error when the cursor plus the width
\* of the class passes the end of the buffer.
C8_OverrunRaises ==
  (last.op \in {"write", "read"}
     /\ last.start + TableWidth(last.type) > Len(last.before)) => ~last.ok

\* C9: an identifier written where 32 bytes fit changes only those 32 bytes,
\* which then hold the identifier; reading there returns it and changes
\* nothing; both calls advance the cursor by 32; both sizes are 32.
C9_IdentifierFrame ==
  /\ KeySerializedSize = 32 /\ KeyStaticSize = 32
  /\ (last.op = "write" /\ last.type = KeyType
        /\ last.start + 32 <= Len(last.before)) =>
       /\ last.ok
       /\ last.end = last.start + 32
       /\ SameOutside(buffer, last.before, last.start, 32)
       /\ SubSeq(buffer, last.start + 1, last.start + 32) = WireBytes(KeyType, last.arg)
  /\ (last.op = "read" /\ last.type = KeyType
        /\ last.start + 32 <= Len(last.before)) =>
       /\ last.ok
       /\ last.end = last.start + 32
       /\ buffer = last.before
       /\ (wrote.type = KeyType /\ wrote.start = last.start) =>
            /\ Equals(last.value, wrote.value)
            /\ WireBytes(KeyType, last.value) = WireBytes(KeyType, wrote.value)

C9_Witness ==
  /\ last.op = "read" /\ last.type = KeyType /\ last.ok
  /\ wrote.type = KeyType /\ wrote.start = last.start
  /\ last.start + 32 <= Len(buffer)
  /\ Len(wrote.value) < 32

\* C10: values written in order through one cursor from 0 into a buffer of
\* the summed table widths lie back to back, the cursor ends at the sum, and
\* reading the same classes in order from 0 returns the values.
C10_SequentialComposition ==
  /\ last.op \in {"write", "read"} => last.ok
  /\ (last.op = "write" /\ nops = Len(plan)) =>
       /\ offset = SumWidths(plan)
       /\ buffer = WirePlan(plan)
  /\ (last.op = "read" /\ Len(got) = Len(plan)) =>
       \A i \in 1..Len(plan) : Equals(got[i], ItemValue(plan[i]))

====
